---- MODULE Spec2Model ----
(***************************************************************************)
(* Model of include/mutex.h (baidu::common): Mutex, MutexLock and CondVar  *)
(* over the pthread primitives.                                            *)
(*                                                                         *)
(* Spec is the build without MUTEX_DEBUG (mutex.h:21): every thread is a   *)
(* caller that may invoke any public operation at any time, also where     *)
(* the documentation forbids it.  ScopedSpec is the same build with every  *)
(* thread taking the mutex through a MutexLock scope; ScopedWeakFairSpec   *)
(* and ScopedFairSpec add the scheduler's fairness.  DebugSpec is the      *)
(* build with MUTEX_DEBUG, used as documented.  An operation is split      *)
(* at each point where another thread can run between two accesses to      *)
(* shared state: between BeforeUnlock and the pthread call that follows    *)
(* it, and between the pthread call that acquires and AfterLock.           *)
(*                                                                         *)
(* The pthread primitives are modelled as POSIX specifies them: an         *)
(* ERRORCHECK mutex answers EDEADLK to a relock and EPERM to an unlock by  *)
(* a thread that is not its owner; a condition wait releases the mutex and *)
(* enqueues the caller in one atomic step, fails at once (before touching  *)
(* the mutex) on EINVAL or EPERM, and may wake spuriously.                 *)
(*                                                                         *)
(* owner_ is read by AssertHeld and written by BeforeUnlock without the    *)
(* lock being held by the accessing thread.  A racing read of the word     *)
(* sees the value before or after the write, which is what the             *)
(* interleaving of the steps below produces.                               *)
(***************************************************************************)
EXTENDS Integers, FiniteSets

NumThreads == 2
Threads == 1..NumThreads

\* The threads of the specifications in which every thread takes the mutex
\* through a MutexLock scope.
NumClients == 3
Clients == 1..NumClients

\* owner_(0): the value of owner_ that names no thread; also "mu_ unlocked".
NoThread == 0

\* Inputs of TimeWait: gettimeofday's tv_usec and the timeout in ms.
TvSec == 1
TvUsecs == {0, 999999}
Timeouts == {-1, 100}

Errno == [EPERM |-> 1, EINVAL |-> 22, EDEADLK |-> 35, ETIMEDOUT |-> 110]

NoTs == [tv_sec |-> 0, tv_nsec |-> 0]

\* With MUTEX_DEBUG: the clock runs to MaxTime, and a thread's lines are
\* counted up to MaxLines.
MaxTime == 2
MaxLines == 2

NULL == "NULL"
Labels == {NULL, "L"}
Thresholds == {0, 1}

NoLocal == [msg |-> NULL, msg_threshold |-> 0, s |-> 0]
NoPair == [msg |-> NULL, T |-> 0, since |-> 0, lines |-> 0]

VARIABLES
    mu_,      \* Mutex::mu_: the thread that holds the pthread mutex, or NoThread
    owner_,   \* Mutex::owner_
    cond_,    \* CondVar::cond_: the threads blocked on the condition variable
    pc,       \* where each thread is in the operation it called
    inside,   \* the thread returned from Lock/Wait/TimeWait and has not since
              \* called Unlock, Wait or TimeWait
    woke,     \* why the thread left cond_
    ret,      \* TimeWait's local ret
    ts,       \* TimeWait's local ts
    aborted,  \* "" while the process runs, else what abort()ed it
    now,             \* timer::get_micros()
    msg_,            \* Mutex::msg_
    msg_threshold_,  \* Mutex::msg_threshold_
    lock_time_,      \* Mutex::lock_time_
    local,    \* msg, msg_threshold and s of the thread's call of Lock, Wait
              \* or TimeWait
    pair      \* what the thread's current Lock/Unlock pair should report:
              \* the label of its latest Lock, Wait or TimeWait, the
              \* threshold of its Lock, the time of its latest AfterLock,
              \* and the lines it has printed since it called Lock

\* The state that only a build with MUTEX_DEBUG changes.
debug == <<now, msg_, msg_threshold_, lock_time_, local, pair>>

vars == <<mu_, owner_, cond_, pc, inside, woke, ret, ts, aborted, debug>>

\* Mutex(): msg_(NULL), msg_threshold_(0), lock_time_(0).
DebugInit(T) ==
    /\ now = 0
    /\ msg_ = NULL
    /\ msg_threshold_ = 0
    /\ lock_time_ = 0
    /\ local = [t \in T |-> NoLocal]
    /\ pair = [t \in T |-> NoPair]

Init ==
    /\ mu_ = NoThread
    /\ owner_ = NoThread
    /\ cond_ = {}
    /\ pc = [t \in Threads |-> "idle"]
    /\ inside = [t \in Threads |-> FALSE]
    /\ woke = [t \in Threads |-> "none"]
    /\ ret = [t \in Threads |-> 0]
    /\ ts = [t \in Threads |-> NoTs]
    /\ aborted = ""
    /\ DebugInit(Threads)

Running == aborted = ""

----------------------------------------------------------------------------
\* Helpers

\* C++ integer division and remainder truncate toward zero (b > 0).
CDiv(a, b) == IF a >= 0 THEN a \div b ELSE -((-a) \div b)

CMod(a, b) == a - b * CDiv(a, b)

\* TimeWait's deadline: usec = tv_usec + timeout * 1000LL, then ts.
Deadline(tv_sec, tv_usec, timeout) ==
    LET usec == tv_usec + timeout * 1000
    IN  [tv_sec |-> tv_sec + CDiv(usec, 1000000),
         tv_nsec |-> CMod(usec, 1000000) * 1000]

\* PthreadCall aborts iff the result is not 0.
PthreadCall(result) == result # 0

\* abort(): the process ends; no thread takes another step.
Abort(t, label) ==
    /\ aborted' = label
    /\ pc' = [pc EXCEPT ![t] = "aborted"]

Goto(t, loc) == pc' = [pc EXCEPT ![t] = loc]

\* pthread_mutex_lock on the ERRORCHECK mutex, for a caller it does not block.
pthread_mutex_lock_recursive(t) == 0

pthread_mutex_lock(t) == IF mu_ = t THEN Errno.EDEADLK ELSE 0

\* pthread_mutex_unlock on the ERRORCHECK mutex.
pthread_mutex_unlock_normal(t) == 0

pthread_mutex_unlock(t) == IF mu_ = t THEN 0 ELSE Errno.EPERM

\* The error pthread_cond_wait returns at once, or 0 if the caller blocks.
pthread_cond_wait(t) == IF mu_ = t THEN 0 ELSE Errno.EPERM

\* The error pthread_cond_timedwait returns at once, or 0 if the caller blocks.
pthread_cond_timedwait(t) ==
    IF ts[t].tv_nsec < 0 \/ ts[t].tv_nsec >= 1000000000 THEN Errno.EINVAL
    ELSE IF mu_ = t THEN 0 ELSE Errno.EPERM

AfterLock(t) == owner_' = t

BeforeUnlockSkip == owner_' = owner_

BeforeUnlock == owner_' = NoThread

----------------------------------------------------------------------------
\* Mutex

Lock(t) ==
    /\ Running /\ pc[t] = "idle"
    /\ Goto(t, "Lock")
    /\ UNCHANGED <<mu_, owner_, cond_, inside, woke, ret, ts, aborted>>
    /\ UNCHANGED debug

\* PthreadCall("mutex lock", pthread_mutex_lock(&mu_)): blocks while another
\* thread holds mu_.
Lock_mutex_lock(t) ==
    /\ Running /\ pc[t] = "Lock"
    /\ mu_ \in {NoThread, t}
    /\ IF PthreadCall(pthread_mutex_lock(t))
       THEN Abort(t, "mutex lock") /\ UNCHANGED mu_
       ELSE mu_' = t /\ Goto(t, "Lock_AfterLock") /\ UNCHANGED aborted
    /\ UNCHANGED <<owner_, cond_, inside, woke, ret, ts>>
    /\ UNCHANGED debug

Lock_AfterLock(t) ==
    /\ Running /\ pc[t] = "Lock_AfterLock"
    /\ AfterLock(t)
    /\ inside' = [inside EXCEPT ![t] = TRUE]
    /\ Goto(t, "idle")
    /\ UNCHANGED <<mu_, cond_, woke, ret, ts, aborted>>
    /\ UNCHANGED debug

Unlock(t) ==
    /\ Running /\ pc[t] = "idle"
    /\ BeforeUnlock
    /\ inside' = [inside EXCEPT ![t] = FALSE]
    /\ Goto(t, "Unlock")
    /\ UNCHANGED <<mu_, cond_, woke, ret, ts, aborted>>
    /\ UNCHANGED debug

Unlock_mutex_unlock(t) ==
    /\ Running /\ pc[t] = "Unlock"
    /\ IF PthreadCall(pthread_mutex_unlock(t))
       THEN Abort(t, "mutex unlock") /\ UNCHANGED mu_
       ELSE mu_' = NoThread /\ Goto(t, "idle") /\ UNCHANGED aborted
    /\ UNCHANGED <<owner_, cond_, inside, woke, ret, ts>>
    /\ UNCHANGED debug

AssertHeld(t) ==
    /\ Running /\ pc[t] = "idle"
    /\ Goto(t, "AssertHeld")
    /\ UNCHANGED <<mu_, owner_, cond_, inside, woke, ret, ts, aborted>>
    /\ UNCHANGED debug

\* if (0 == pthread_equal(owner_, pthread_self())) abort();
AssertHeld_check(t) ==
    /\ Running /\ pc[t] = "AssertHeld"
    /\ IF owner_ # t
       THEN Abort(t, "AssertHeld")
       ELSE Goto(t, "idle") /\ UNCHANGED aborted
    /\ UNCHANGED <<mu_, owner_, cond_, inside, woke, ret, ts>>
    /\ UNCHANGED debug

----------------------------------------------------------------------------
\* CondVar

Wait(t) ==
    /\ Running /\ pc[t] = "idle"
    /\ BeforeUnlock
    /\ inside' = [inside EXCEPT ![t] = FALSE]
    /\ Goto(t, "Wait")
    /\ UNCHANGED <<mu_, cond_, woke, ret, ts, aborted>>
    /\ UNCHANGED debug

\* A wait that gives up the mutex but is not yet a waiter of cond_.
Wait_cond_wait_unlock_first(t) ==
    /\ Running /\ pc[t] = "Wait"
    /\ IF PthreadCall(pthread_cond_wait(t))
       THEN Abort(t, "condvar wait") /\ UNCHANGED mu_
       ELSE mu_' = NoThread /\ Goto(t, "Wait_blocked") /\ UNCHANGED aborted
    /\ woke' = [woke EXCEPT ![t] = "none"]
    /\ UNCHANGED <<owner_, cond_, inside, ret, ts>>
    /\ UNCHANGED debug

\* PthreadCall("condvar wait", pthread_cond_wait(&cond_, &mu_->mu_)), entry:
\* releases mu_ and joins cond_ in one step, or fails at once.
Wait_cond_wait(t) ==
    /\ Running /\ pc[t] = "Wait"
    /\ IF PthreadCall(pthread_cond_wait(t))
       THEN Abort(t, "condvar wait") /\ UNCHANGED <<mu_, cond_>>
       ELSE /\ mu_' = NoThread
            /\ cond_' = cond_ \cup {t}
            /\ Goto(t, "Wait_blocked")
            /\ UNCHANGED aborted
    /\ woke' = [woke EXCEPT ![t] = "none"]
    /\ UNCHANGED <<owner_, inside, ret, ts>>
    /\ UNCHANGED debug

\* A wait that returns as soon as the mutex is free, woken or not.
Wait_cond_wait_return_unwoken(t) ==
    /\ Running /\ pc[t] = "Wait_blocked"
    /\ mu_ = NoThread
    /\ mu_' = t
    /\ cond_' = cond_ \ {t}
    /\ Goto(t, "Wait_AfterLock")
    /\ UNCHANGED <<owner_, inside, woke, ret, ts, aborted>>
    /\ UNCHANGED debug

\* A woken waiter that is never given the mutex back.
Wait_cond_wait_return_stuck(t) ==
    /\ Running /\ pc[t] = "Wait_blocked"
    /\ t \notin cond_ /\ woke[t] = "none"
    /\ mu_ = NoThread
    /\ mu_' = t
    /\ Goto(t, "Wait_AfterLock")
    /\ UNCHANGED <<owner_, cond_, inside, woke, ret, ts, aborted>>
    /\ UNCHANGED debug

\* pthread_cond_wait, exit: the woken thread reacquires mu_ and returns 0.
Wait_cond_wait_return(t) ==
    /\ Running /\ pc[t] = "Wait_blocked"
    /\ t \notin cond_ /\ woke[t] # "none"
    /\ mu_ = NoThread
    /\ mu_' = t
    /\ Goto(t, "Wait_AfterLock")
    /\ UNCHANGED <<owner_, cond_, inside, woke, ret, ts, aborted>>
    /\ UNCHANGED debug

Wait_AfterLock(t) ==
    /\ Running /\ pc[t] = "Wait_AfterLock"
    /\ AfterLock(t)
    /\ inside' = [inside EXCEPT ![t] = TRUE]
    /\ woke' = [woke EXCEPT ![t] = "none"]
    /\ Goto(t, "idle")
    /\ UNCHANGED <<mu_, cond_, ret, ts, aborted>>
    /\ UNCHANGED debug

TimeWait(t) ==
    /\ Running /\ pc[t] = "idle"
    /\ \E tv_usec \in TvUsecs, timeout \in Timeouts :
          ts' = [ts EXCEPT ![t] = Deadline(TvSec, tv_usec, timeout)]
    /\ BeforeUnlock
    /\ inside' = [inside EXCEPT ![t] = FALSE]
    /\ ret' = [ret EXCEPT ![t] = 0]
    /\ Goto(t, "TimeWait")
    /\ UNCHANGED <<mu_, cond_, woke, aborted>>
    /\ UNCHANGED debug

\* int ret = pthread_cond_timedwait(&cond_, &mu_->mu_, &ts), entry: an error
\* other than ETIMEDOUT is returned at once and leaves mu_ and cond_ alone.
TimeWait_cond_timedwait(t) ==
    /\ Running /\ pc[t] = "TimeWait"
    /\ LET result == pthread_cond_timedwait(t)
       IN  IF result # 0
           THEN /\ ret' = [ret EXCEPT ![t] = result]
                /\ Goto(t, "TimeWait_AfterLock")
                /\ UNCHANGED <<mu_, cond_>>
           ELSE /\ mu_' = NoThread
                /\ cond_' = cond_ \cup {t}
                /\ Goto(t, "TimeWait_blocked")
                /\ UNCHANGED ret
    /\ woke' = [woke EXCEPT ![t] = "none"]
    /\ ts' = [ts EXCEPT ![t] = NoTs]
    /\ UNCHANGED <<owner_, inside, aborted>>
    /\ UNCHANGED debug

\* The deadline passes while the thread is still a waiter.
TimeWait_deadline(t) ==
    /\ Running /\ pc[t] = "TimeWait_blocked"
    /\ t \in cond_
    /\ cond_' = cond_ \ {t}
    /\ woke' = [woke EXCEPT ![t] = "timeout"]
    /\ UNCHANGED <<mu_, owner_, pc, inside, ret, ts, aborted>>
    /\ UNCHANGED debug

\* pthread_cond_timedwait, exit: reacquires mu_; ETIMEDOUT iff the deadline
\* passed first.
TimeWait_cond_timedwait_return(t) ==
    /\ Running /\ pc[t] = "TimeWait_blocked"
    /\ t \notin cond_ /\ woke[t] # "none"
    /\ mu_ = NoThread
    /\ mu_' = t
    /\ ret' = [ret EXCEPT ![t] =
                  IF woke[t] = "timeout" THEN Errno.ETIMEDOUT ELSE 0]
    /\ Goto(t, "TimeWait_AfterLock")
    /\ UNCHANGED <<owner_, cond_, inside, woke, ts, aborted>>
    /\ UNCHANGED debug

\* return (ret == 0);
TimeWaitResult(t) == ret[t] = 0

\* mu_->AfterLock(msg, msg_threshold); return (ret == 0);
TimeWait_AfterLock(t) ==
    /\ Running /\ pc[t] = "TimeWait_AfterLock"
    /\ AfterLock(t)
    /\ inside' = [inside EXCEPT ![t] = TRUE]
    /\ woke' = [woke EXCEPT ![t] = "none"]
    /\ ret' = [ret EXCEPT ![t] = 0]
    /\ Goto(t, "idle")
    /\ UNCHANGED <<mu_, cond_, ts, aborted>>
    /\ UNCHANGED debug

Signal(t) ==
    /\ Running /\ pc[t] = "idle"
    /\ Goto(t, "Signal")
    /\ UNCHANGED <<mu_, owner_, cond_, inside, woke, ret, ts, aborted>>
    /\ UNCHANGED debug

\* A signal that wakes every waiter (a broadcast).
Signal_cond_signal_all(t) ==
    /\ Running /\ pc[t] = "Signal"
    /\ cond_' = {}
    /\ woke' = [w \in DOMAIN woke |->
                  IF w \in cond_ THEN "signal" ELSE woke[w]]
    /\ Goto(t, "idle")
    /\ UNCHANGED <<mu_, owner_, inside, ret, ts, aborted>>
    /\ UNCHANGED debug

\* A signal that is remembered when no thread waits (a semaphore's post).
Signal_cond_signal_remembered(t) ==
    /\ Running /\ pc[t] = "Signal"
    /\ IF cond_ = {}
       THEN /\ woke' = [w \in DOMAIN woke |-> "signal"]
            /\ UNCHANGED cond_
       ELSE \E w \in cond_ :
               /\ cond_' = cond_ \ {w}
               /\ woke' = [woke EXCEPT ![w] = "signal"]
    /\ Goto(t, "idle")
    /\ UNCHANGED <<mu_, owner_, inside, ret, ts, aborted>>
    /\ UNCHANGED debug

\* pthread_cond_signal: wakes one waiter if there is one; always returns 0.
Signal_cond_signal(t) ==
    /\ Running /\ pc[t] = "Signal"
    /\ IF cond_ = {}
       THEN UNCHANGED <<cond_, woke>>
       ELSE \E w \in cond_ :
               /\ cond_' = cond_ \ {w}
               /\ woke' = [woke EXCEPT ![w] = "signal"]
    /\ Goto(t, "idle")
    /\ UNCHANGED <<mu_, owner_, inside, ret, ts, aborted>>
    /\ UNCHANGED debug

Broadcast(t) ==
    /\ Running /\ pc[t] = "idle"
    /\ Goto(t, "Broadcast")
    /\ UNCHANGED <<mu_, owner_, cond_, inside, woke, ret, ts, aborted>>
    /\ UNCHANGED debug

\* A broadcast that wakes only one waiter (a signal).
Broadcast_cond_broadcast_one(t) ==
    /\ Running /\ pc[t] = "Broadcast"
    /\ IF cond_ = {}
       THEN UNCHANGED <<cond_, woke>>
       ELSE \E w \in cond_ :
               /\ cond_' = cond_ \ {w}
               /\ woke' = [woke EXCEPT ![w] = "broadcast"]
    /\ Goto(t, "idle")
    /\ UNCHANGED <<mu_, owner_, inside, ret, ts, aborted>>
    /\ UNCHANGED debug

\* pthread_cond_broadcast: wakes every waiter; always returns 0.
Broadcast_cond_broadcast(t) ==
    /\ Running /\ pc[t] = "Broadcast"
    /\ cond_' = {}
    /\ woke' = [w \in DOMAIN woke |->
                  IF w \in cond_ THEN "broadcast" ELSE woke[w]]
    /\ Goto(t, "idle")
    /\ UNCHANGED <<mu_, owner_, inside, ret, ts, aborted>>
    /\ UNCHANGED debug

\* A waiter of cond_ wakes with no signal, broadcast or deadline (POSIX).
SpuriousWakeup(t) ==
    /\ Running /\ t \in cond_
    /\ cond_' = cond_ \ {t}
    /\ woke' = [woke EXCEPT ![t] = "spurious"]
    /\ UNCHANGED <<mu_, owner_, pc, inside, ret, ts, aborted>>
    /\ UNCHANGED debug

----------------------------------------------------------------------------

Next ==
    \E t \in Threads :
        \/ Lock(t)
        \/ Lock_mutex_lock(t)
        \/ Lock_AfterLock(t)
        \/ Unlock(t)
        \/ Unlock_mutex_unlock(t)
        \/ AssertHeld(t)
        \/ AssertHeld_check(t)
        \/ Wait(t)
        \/ Wait_cond_wait(t)
        \/ Wait_cond_wait_return(t)
        \/ Wait_AfterLock(t)
        \/ TimeWait(t)
        \/ TimeWait_cond_timedwait(t)
        \/ TimeWait_deadline(t)
        \/ TimeWait_cond_timedwait_return(t)
        \/ TimeWait_AfterLock(t)
        \/ Signal(t)
        \/ Signal_cond_signal(t)
        \/ Broadcast(t)
        \/ Broadcast_cond_broadcast(t)
        \/ SpuriousWakeup(t)

Spec == Init /\ [][Next]_vars

----------------------------------------------------------------------------
\* MutexLock, and threads that use the Mutex and the CondVar as documented:
\* the mutex is taken by a MutexLock scope, Wait and TimeWait are called
\* inside the scope, Signal and Broadcast anywhere.

\* explicit MutexLock(Mutex *mu, ...) : mu_(mu) { mu_->Lock(msg, msg_threshold); }
MutexLock(t) == ~inside[t] /\ Lock(t)

\* A scope that ends without releasing the mutex.
MutexLock_destructor_leak(t) ==
    /\ inside[t]
    /\ Running /\ pc[t] = "idle"
    /\ inside' = [inside EXCEPT ![t] = FALSE]
    /\ UNCHANGED <<mu_, owner_, cond_, pc, woke, ret, ts, aborted>>
    /\ UNCHANGED debug

\* ~MutexLock() { mu_->Unlock(); }: the scope ends, by any exit path.
MutexLock_destructor(t) == inside[t] /\ Unlock(t)

ScopedAssertHeld(t) == inside[t] /\ AssertHeld(t)

ScopedWait(t) == inside[t] /\ Wait(t)

ScopedTimeWait(t) == inside[t] /\ TimeWait(t)

ScopedInit ==
    /\ mu_ = NoThread
    /\ owner_ = NoThread
    /\ cond_ = {}
    /\ pc = [t \in Clients |-> "idle"]
    /\ inside = [t \in Clients |-> FALSE]
    /\ woke = [t \in Clients |-> "none"]
    /\ ret = [t \in Clients |-> 0]
    /\ ts = [t \in Clients |-> NoTs]
    /\ aborted = ""
    /\ DebugInit(Clients)

\* The steps that carry on an operation the thread has called.
Proceed(t) ==
    \/ Lock_mutex_lock(t)
    \/ Lock_AfterLock(t)
    \/ Unlock_mutex_unlock(t)
    \/ AssertHeld_check(t)
    \/ Wait_cond_wait(t)
    \/ Wait_cond_wait_return(t)
    \/ Wait_AfterLock(t)
    \/ TimeWait_cond_timedwait(t)
    \/ TimeWait_deadline(t)
    \/ TimeWait_cond_timedwait_return(t)
    \/ TimeWait_AfterLock(t)
    \/ Signal_cond_signal(t)
    \/ Broadcast_cond_broadcast(t)

\* The calls by which a thread inside its scope gives up the mutex.
Release(t) ==
    \/ MutexLock_destructor(t)
    \/ ScopedWait(t)
    \/ ScopedTimeWait(t)

ScopedNext ==
    \E t \in Clients :
        \/ MutexLock(t)
        \/ Release(t)
        \/ ScopedAssertHeld(t)
        \/ Signal(t)
        \/ Broadcast(t)
        \/ Proceed(t)
        \/ SpuriousWakeup(t)

ScopedSpec == ScopedInit /\ [][ScopedNext]_vars

\* Weak fairness: the scheduler runs every thread that can take a step of
\* the operation it is in, and a deadline passes.  The mutex itself is not
\* fair.
ScopedWeakFairSpec ==
    /\ ScopedSpec
    /\ \A t \in Clients : WF_vars(Proceed(t))

\* In addition, a thread inside its scope eventually ends the scope.
ScopedFairSpec ==
    /\ ScopedWeakFairSpec
    /\ \A t \in Clients : SF_vars(MutexLock_destructor(t))

----------------------------------------------------------------------------
\* The build with MUTEX_DEBUG defined, used as documented: Unlock, Wait and
\* TimeWait are called by the thread that holds the mutex, Lock by a thread
\* that does not.

\* timer::get_micros() advances.
Tick ==
    /\ Running /\ now < MaxTime
    /\ now' = now + 1
    /\ UNCHANGED <<mu_, owner_, cond_, pc, inside, woke, ret, ts, aborted,
                   msg_, msg_threshold_, lock_time_, local, pair>>

\* printf of one diagnostic line by thread t, if cond holds.
Printf(t, cond) ==
    IF cond
    THEN IF pair[t].lines < MaxLines THEN pair[t].lines + 1 ELSE MaxLines
    ELSE pair[t].lines

\* AfterLock with MUTEX_DEBUG.
DebugAfterLockKeepThreshold(t, msg, msg_threshold) ==
    /\ msg_' = msg
    /\ UNCHANGED msg_threshold_
    /\ lock_time_' = IF msg # NULL THEN now ELSE lock_time_
    /\ owner_' = t

DebugAfterLock(t, msg, msg_threshold) ==
    /\ msg_' = msg
    /\ msg_threshold_' = msg_threshold
    /\ lock_time_' = IF msg # NULL THEN now ELSE lock_time_
    /\ owner_' = t

\* BeforeUnlock's condition to print the "locked" line.
LockedAtAll == msg_ # NULL

LockedTooLong == msg_ # NULL /\ now - lock_time_ > msg_threshold_

\* BeforeUnlock with MUTEX_DEBUG; lines is what thread t has printed after it.
DebugBeforeUnlock(t, lines) ==
    /\ lines = Printf(t, LockedTooLong)
    /\ msg_' = NULL
    /\ owner_' = NoThread
    /\ UNCHANGED <<msg_threshold_, lock_time_>>

\* Lock(msg, msg_threshold): int64_t s = (msg) ? timer::get_micros() : 0;
DebugLock(t) ==
    /\ Running /\ pc[t] = "idle" /\ ~inside[t]
    /\ \E msg \in Labels, msg_threshold \in Thresholds :
          /\ local' = [local EXCEPT ![t] =
                          [msg |-> msg, msg_threshold |-> msg_threshold,
                           s |-> IF msg # NULL THEN now ELSE 0]]
          /\ pair' = [pair EXCEPT ![t] =
                          [msg |-> msg, T |-> msg_threshold,
                           since |-> 0, lines |-> 0]]
    /\ Goto(t, "Lock")
    /\ UNCHANGED <<mu_, owner_, cond_, inside, woke, ret, ts, aborted,
                   now, msg_, msg_threshold_, lock_time_>>

\* AfterLock(msg, msg_threshold), then the "wait lock" line
\* if (msg && lock_time_ - s > msg_threshold).
DebugLock_AfterLock(t) ==
    /\ Running /\ pc[t] = "Lock_AfterLock"
    /\ DebugAfterLock(t, local[t].msg, local[t].msg_threshold)
    /\ pair' = [pair EXCEPT ![t] =
                   [@ EXCEPT !.since = now,
                             !.lines = Printf(t, /\ local[t].msg # NULL
                                                 /\ lock_time_' - local[t].s
                                                       > local[t].msg_threshold)]]
    /\ local' = [local EXCEPT ![t] = NoLocal]
    /\ inside' = [inside EXCEPT ![t] = TRUE]
    /\ Goto(t, "idle")
    /\ UNCHANGED <<mu_, cond_, woke, ret, ts, aborted, now>>

\* Unlock; the pair is over, and only its count of lines is kept.
DebugUnlock(t) ==
    /\ Running /\ pc[t] = "idle" /\ inside[t]
    /\ \E lines \in 0..MaxLines :
          /\ DebugBeforeUnlock(t, lines)
          /\ pair' = [pair EXCEPT ![t] = [NoPair EXCEPT !.lines = lines]]
    /\ inside' = [inside EXCEPT ![t] = FALSE]
    /\ Goto(t, "Unlock")
    /\ UNCHANGED <<mu_, cond_, woke, ret, ts, aborted, now, local>>

\* Wait(msg): int64_t msg_threshold = mu_->msg_threshold_; mu_->BeforeUnlock();
DebugWait(t) ==
    /\ Running /\ pc[t] = "idle" /\ inside[t]
    /\ \E msg \in Labels :
          local' = [local EXCEPT ![t] =
                       [msg |-> msg, msg_threshold |-> msg_threshold_, s |-> 0]]
    /\ \E lines \in 0..MaxLines :
          /\ DebugBeforeUnlock(t, lines)
          /\ pair' = [pair EXCEPT ![t].lines = lines]
    /\ inside' = [inside EXCEPT ![t] = FALSE]
    /\ Goto(t, "Wait")
    /\ UNCHANGED <<mu_, cond_, woke, ret, ts, aborted, now>>

\* mu_->AfterLock(msg, msg_threshold);
DebugWait_AfterLock(t) ==
    /\ Running /\ pc[t] = "Wait_AfterLock"
    /\ DebugAfterLock(t, local[t].msg, local[t].msg_threshold)
    /\ pair' = [pair EXCEPT ![t] =
                   [@ EXCEPT !.msg = local[t].msg, !.since = now]]
    /\ local' = [local EXCEPT ![t] = NoLocal]
    /\ inside' = [inside EXCEPT ![t] = TRUE]
    /\ woke' = [woke EXCEPT ![t] = "none"]
    /\ Goto(t, "idle")
    /\ UNCHANGED <<mu_, cond_, ret, ts, aborted, now>>

DebugTimeWait(t) ==
    /\ Running /\ pc[t] = "idle" /\ inside[t]
    /\ \E tv_usec \in TvUsecs, timeout \in Timeouts :
          ts' = [ts EXCEPT ![t] = Deadline(TvSec, tv_usec, timeout)]
    /\ \E msg \in Labels :
          local' = [local EXCEPT ![t] =
                       [msg |-> msg, msg_threshold |-> msg_threshold_, s |-> 0]]
    /\ \E lines \in 0..MaxLines :
          /\ DebugBeforeUnlock(t, lines)
          /\ pair' = [pair EXCEPT ![t].lines = lines]
    /\ inside' = [inside EXCEPT ![t] = FALSE]
    /\ ret' = [ret EXCEPT ![t] = 0]
    /\ Goto(t, "TimeWait")
    /\ UNCHANGED <<mu_, cond_, woke, aborted, now>>

DebugTimeWait_AfterLock(t) ==
    /\ Running /\ pc[t] = "TimeWait_AfterLock"
    /\ DebugAfterLock(t, local[t].msg, local[t].msg_threshold)
    /\ pair' = [pair EXCEPT ![t] =
                   [@ EXCEPT !.msg = local[t].msg, !.since = now]]
    /\ local' = [local EXCEPT ![t] = NoLocal]
    /\ inside' = [inside EXCEPT ![t] = TRUE]
    /\ woke' = [woke EXCEPT ![t] = "none"]
    /\ ret' = [ret EXCEPT ![t] = 0]
    /\ Goto(t, "idle")
    /\ UNCHANGED <<mu_, cond_, ts, aborted, now>>

DebugNext ==
    \/ Tick
    \/ \E t \in Threads :
          \/ DebugLock(t)
          \/ Lock_mutex_lock(t)
          \/ DebugLock_AfterLock(t)
          \/ DebugUnlock(t)
          \/ Unlock_mutex_unlock(t)
          \/ DebugWait(t)
          \/ Wait_cond_wait(t)
          \/ Wait_cond_wait_return(t)
          \/ DebugWait_AfterLock(t)
          \/ DebugTimeWait(t)
          \/ TimeWait_cond_timedwait(t)
          \/ TimeWait_deadline(t)
          \/ TimeWait_cond_timedwait_return(t)
          \/ DebugTimeWait_AfterLock(t)
          \/ Signal(t)
          \/ Signal_cond_signal(t)
          \/ Broadcast(t)
          \/ Broadcast_cond_broadcast(t)
          \/ SpuriousWakeup(t)

DebugSpec == Init /\ [][DebugNext]_vars

----------------------------------------------------------------------------
\* Properties

\* The step of thread t that returns from the operation whose last location is `from`.
Returns(t, from) == pc[t] = from /\ pc'[t] = "idle"

\* C1: mutual exclusion.  At most one thread is inside the critical section,
\* i.e. has returned from Lock, Wait or TimeWait and has not since called
\* Unlock or entered a wait again.
C1_MutualExclusion == Cardinality({t \in Threads : inside[t]}) <= 1

\* A thread is between BeforeUnlock and the pthread call that follows it, or
\* between the pthread call that acquired mu_ and AfterLock.
InWindow(t) ==
    pc[t] \in {"Lock_AfterLock", "Unlock", "Wait", "Wait_AfterLock",
               "TimeWait", "TimeWait_AfterLock"}

\* C2: owner invariant.  owner_ is set iff the lock is held, and then names
\* the holder.  Stated here only for the states in which the process runs and
\* no thread is halfway through an operation's bookkeeping (the claim says
\* every reachable state, which is stronger).
C2_OwnerInvariant ==
    (Running /\ \A t \in Threads : ~InWindow(t)) => owner_ = mu_

C4_UnlockNotHeldAborts ==
    [][\A t \in Threads :
          (pc[t] = "Unlock" /\ mu_ # t /\ pc'[t] # "Unlock")
              => (pc'[t] = "aborted" /\ aborted' = "mutex unlock" /\ mu_' = mu_)]_vars

C4_Witness ==
    \E t \in Threads :
        /\ pc[t] = "aborted" /\ aborted = "mutex unlock"
        /\ mu_ \in Threads \ {t}

\* C5: AssertHeld called by t returns normally exactly when t holds the
\* mutex, and aborts otherwise.  This is the half "it aborts when the caller
\* is not the holder".
C5_AbortsIfNotHolder ==
    [][\A t \in Threads :
          (pc[t] = "AssertHeld" /\ pc'[t] # "AssertHeld" /\ mu_ # t)
              => pc'[t] = "aborted"]_vars

\* C6: Wait releases and reacquires.  Entering the wait frees the mutex; while
\* the caller is suspended it neither holds the mutex nor is recorded as its
\* owner (so another thread's Lock can succeed); and every return from Wait
\* leaves the caller holding the mutex and recorded as its owner.
C6_WaitReleasesAndReacquires ==
    /\ [](\A t \in Threads :
            pc[t] = "Wait_blocked" => (mu_ # t /\ owner_ # t))
    /\ [][\A t \in Threads :
            /\ (pc[t] = "Wait" /\ pc'[t] = "Wait_blocked") => mu_' = NoThread
            /\ Returns(t, "Wait_AfterLock") => (mu_' = t /\ owner_' = t)]_vars

C6_Witness ==
    \E t, u \in Threads :
        /\ t # u
        /\ pc[t] = "Wait_blocked" /\ woke[t] = "none"
        /\ pc[u] = "idle" /\ inside[u] /\ mu_ = u /\ owner_ = u

\* The threads that have given up the mutex in a wait and were not woken yet.
Suspended ==
    {w \in Threads :
        pc[w] \in {"Wait_blocked", "TimeWait_blocked"} /\ woke[w] = "none"}

\* C7: no lost wakeup.  Every thread that has released the mutex in a wait
\* is a waiter a Signal or Broadcast reaches: a Signal issued while some
\* thread is suspended wakes one of the suspended threads (the only one, if
\* there is one), and a Broadcast wakes them all.
C7_NoLostWakeup ==
    [][\A s \in Threads :
          /\ (pc[s] = "Signal" /\ pc'[s] = "idle" /\ Suspended # {})
                => \E w \in Suspended : woke'[w] = "signal"
          /\ (pc[s] = "Broadcast" /\ pc'[s] = "idle")
                => \A w \in Suspended : woke'[w] = "broadcast"]_vars

C7_Witness ==
    \E w, s \in Threads :
        /\ w # s
        /\ pc[w] = "Wait_blocked" /\ woke[w] = "signal"
        /\ pc[s] = "idle" /\ mu_ = s /\ owner_ = s

\* C8: on every return from TimeWait, whatever it returns, the caller holds
\* the mutex and is recorded as its owner.
C8_TimeWaitReacquires ==
    [][\A t \in Threads :
          Returns(t, "TimeWait_AfterLock") => (mu_' = t /\ owner_' = t)]_vars

\* C9: TimeWait returns true if the waiter was signalled (Signal or
\* Broadcast) before the deadline and only then; it returns false if the
\* deadline passed first, and a false result means the deadline passed.  An
\* invalid ts comes only from a negative timeout, whose deadline has passed
\* when TimeWait is called, so EINVAL counts as the deadline having passed.
C9_TimeWaitResult ==
    [][\A t \in Threads :
          Returns(t, "TimeWait_AfterLock")
              => /\ TimeWaitResult(t) <=> woke[t] \in {"signal", "broadcast"}
                 /\ woke[t] = "timeout" => ~TimeWaitResult(t)
                 /\ ~TimeWaitResult(t)
                       => (woke[t] = "timeout" \/ ret[t] = Errno.EINVAL)]_vars

\* C10: a failure of the timed wait other than the deadline passing aborts
\* the process, as it does in Wait: TimeWait never goes on after it.
C10_TimedWaitFailureAborts ==
    [][\A t \in Threads :
          (pc[t] = "TimeWait" /\ pc'[t] # "TimeWait"
             /\ pthread_cond_timedwait(t) \notin {0, Errno.ETIMEDOUT})
              => pc'[t] = "aborted"]_vars

\* A step in which some thread's pthread_cond_signal or pthread_cond_broadcast
\* runs.
SignalStep ==
    \E s \in DOMAIN pc : pc[s] \in {"Signal", "Broadcast"} /\ pc'[s] = "idle"

\* C11 (as stated): a Signal with N >= 1 threads blocked in Wait wakes one of
\* them, and the others remain blocked until a further Signal or Broadcast: a
\* thread blocked in Wait stops waiting on the condition only in the step of a
\* Signal or a Broadcast.
C11_OthersBlockedUntilSignal ==
    [][\A w \in Clients :
          (pc[w] = "Wait_blocked" /\ w \in cond_ /\ w \notin cond_')
              => SignalStep]_vars

\* C11 (amended): the step of a Signal made while N >= 1 threads wait wakes
\* exactly one of them and leaves the other N-1 waiting; a waiter left behind
\* stops waiting only by a further Signal or Broadcast, by a spurious wakeup
\* or, in TimeWait, by its deadline.
C11_SignalWakesExactlyOne ==
    [][/\ \A s \in Clients :
             (pc[s] = "Signal" /\ pc'[s] = "idle" /\ cond_ # {})
                 => \E w \in cond_ :
                       /\ cond_' = cond_ \ {w}
                       /\ woke'[w] = "signal"
                       /\ \A o \in cond_ \ {w} :
                             /\ o \in cond_'
                             /\ woke'[o] = woke[o] /\ pc'[o] = pc[o]
       /\ \A w \in Clients :
             (w \in cond_ /\ w \notin cond_')
                 => /\ woke'[w] \in {"signal", "broadcast", "spurious", "timeout"}
                    /\ woke'[w] \in {"signal", "broadcast"} <=> SignalStep
                    /\ woke'[w] = "timeout" => pc[w] = "TimeWait_blocked"]_vars

\* Two threads wait; a Signal has woken one and the other still waits.
C11_Witness ==
    \E w, o \in Clients :
        /\ w # o
        /\ pc[w] = "Wait_blocked" /\ woke[w] = "signal" /\ w \notin cond_
        /\ pc[o] = "Wait_blocked" /\ woke[o] = "none" /\ o \in cond_

\* A thread woken by a Broadcast that has not yet returned from its wait.
BroadcastWoken(w) ==
    /\ pc[w] \in {"Wait_blocked", "TimeWait_blocked"}
    /\ woke[w] = "broadcast"

\* The thread is back from its wait, or from Lock, holding the mutex.
Holding(w) == pc[w] = "idle" /\ inside[w] /\ mu_ = w /\ owner_ = w

\* C12 (as stated): provided each thread that holds the mutex eventually
\* unlocks it, every thread woken by a Broadcast eventually returns from its
\* wait holding the mutex.
C12_EveryWokenReturns ==
    \A w \in Clients : BroadcastWoken(w) ~> Holding(w)

\* The mutex is granted to every waiter that is again and again able to take
\* it: no thread is starved by the others' Lock calls.
NoStarvation ==
    \A t \in Clients :
        /\ SF_vars(Wait_cond_wait_return(t))
        /\ SF_vars(TimeWait_cond_timedwait_return(t))

\* C12 (amended): a Broadcast wakes all the N threads blocked in Wait or
\* TimeWait; they hold the mutex one at a time; and provided each thread that
\* holds the mutex eventually unlocks it and no woken waiter is starved of
\* the mutex, every one of the N eventually returns holding the mutex.
C12_BroadcastWakesAll ==
    /\ [][\A b \in Clients :
             (pc[b] = "Broadcast" /\ pc'[b] = "idle")
                 => /\ cond_' = {}
                    /\ \A w \in cond_ : woke'[w] = "broadcast" /\ pc'[w] = pc[w]]_vars
    /\ [](\A t, u \in Clients : (inside[t] /\ inside[u]) => t = u)
    /\ (NoStarvation => \A w \in Clients : BroadcastWoken(w) ~> Holding(w))

\* Two threads woken by one Broadcast: one has returned from its wait holding
\* the mutex, the other still waits for the mutex.
C12_Witness ==
    \E w, o \in Clients :
        /\ w # o
        /\ pc[w] = "Wait_AfterLock" /\ woke[w] = "broadcast" /\ mu_ = w
        /\ BroadcastWoken(o)

\* C13, as claimed: a Signal or Broadcast with no waiter changes nothing and
\* is not remembered, and a thread that calls Wait afterwards stays blocked
\* until a later Signal or Broadcast.
C13_WaitEndsOnlyBySignal ==
    [][\A w \in Threads :
          (pc[w] = "Wait_blocked" /\ pc'[w] = "Wait_AfterLock")
              => woke[w] \in {"signal", "broadcast"}]_vars

\* C13, amended: a Signal or Broadcast with no waiter changes no state of the
\* CondVar or the Mutex; it is not remembered: a thread enters its wait as an
\* unwoken waiter, and only a Signal or Broadcast step taken while it waits
\* marks it signalled; it leaves the wait only signalled or spuriously woken.
C13_SignalNoWaiterIsNoOp ==
    [][\A w \in Threads :
          /\ (SignalStep /\ cond_ = {})
                => UNCHANGED <<mu_, owner_, cond_, woke, inside>>
          /\ (pc[w] = "Wait" /\ pc'[w] = "Wait_blocked")
                => (w \in cond_' /\ woke'[w] = "none")
          /\ (woke'[w] \in {"signal", "broadcast"} /\ woke'[w] # woke[w])
                => (SignalStep /\ w \in cond_)
          /\ (pc[w] = "Wait_blocked" /\ pc'[w] = "Wait_AfterLock")
                => woke[w] \in {"signal", "broadcast", "spurious"}]_vars

C13_Witness ==
    \E s, w \in Threads :
        /\ s # w
        /\ pc[s] = "Signal" /\ cond_ = {}
        /\ mu_ = w /\ owner_ = w /\ inside[w]

\* C14: a MutexLock never leaks the mutex.  The constructor returns with the
\* mutex held and owned by its thread; when the destructor returns, on every
\* exit path and also when the scope contained Wait or TimeWait, the mutex is
\* free and owner_ is cleared; and a thread outside a scope never holds the
\* mutex nor is its owner, so its AssertHeld would abort.
C14_MutexLockNeverLeaks ==
    [][\A t \in Clients :
          /\ (pc[t] = "Lock_AfterLock" /\ pc'[t] = "idle")
                => (mu_' = t /\ owner_' = t /\ inside'[t])
          /\ (pc[t] = "Unlock" /\ pc'[t] = "idle")
                => (mu_' = NoThread /\ owner_' = NoThread /\ ~inside'[t])
          /\ (pc'[t] = "idle" /\ ~inside'[t])
                => (mu_' # t /\ owner_' # t)
          /\ aborted' = ""]_vars

\* The destructor of a scope is at its pthread_mutex_unlock, owner_ already
\* cleared, while a waiter woken inside that scope waits for the mutex.
C14_Witness ==
    \E t, w \in Clients :
        /\ pc[t] = "Unlock" /\ ~inside[t]
        /\ mu_ = t /\ owner_ = NoThread
        /\ pc[w] \in {"Wait_blocked", "TimeWait_blocked"}
        /\ woke[w] \in {"signal", "broadcast"}

\* C15, as claimed: a thread blocked in Lock proceeds only once the mutex has
\* been released; a thread blocked in Wait returns only after a Signal or
\* Broadcast issued while it waited; a thread blocked in TimeWait returns
\* only after such a Signal or Broadcast or its deadline.
C15_BlockedStaysBlocked ==
    [][\A t \in Threads :
          /\ (pc[t] = "Lock" /\ pc'[t] = "Lock_AfterLock") => mu_ = NoThread
          /\ (pc[t] = "Wait_blocked" /\ pc'[t] # "Wait_blocked")
                => (woke[t] \in {"signal", "broadcast"} /\ mu_ = NoThread)
          /\ (pc[t] = "TimeWait_blocked" /\ pc'[t] # "TimeWait_blocked")
                => (woke[t] \in {"signal", "broadcast", "timeout"}
                    /\ mu_ = NoThread)]_vars

\* C15, amended: as claimed, except that a thread blocked in Wait or TimeWait
\* may also be woken spuriously.
C15_BlockedUntilReleasedOrWoken ==
    [][\A t \in Threads :
          /\ (pc[t] = "Lock" /\ pc'[t] = "Lock_AfterLock") => mu_ = NoThread
          /\ (pc[t] = "Wait_blocked" /\ pc'[t] # "Wait_blocked")
                => (woke[t] \in {"signal", "broadcast", "spurious"}
                    /\ mu_ = NoThread)
          /\ (pc[t] = "TimeWait_blocked" /\ pc'[t] # "TimeWait_blocked")
                => (woke[t] \in {"signal", "broadcast", "timeout", "spurious"}
                    /\ mu_ = NoThread)]_vars

\* A thread is blocked in Lock behind a holder while another thread's wait
\* has ended by a Signal.
C15_Witness ==
    \E t, u \in Threads :
        /\ t # u
        /\ pc[t] = "Lock" /\ mu_ = u
        /\ pc[u] \in {"Wait_AfterLock", "TimeWait_AfterLock"}
        /\ woke[u] = "signal"

\* Thread t calls Unlock, Wait or TimeWait: it is about to give up the mutex.
Releases(t) ==
    pc[t] = "idle" /\ pc'[t] \in {"Unlock", "Wait", "TimeWait"}

\* Thread t returns from Wait or TimeWait.
WaitReturns(t) ==
    pc[t] \in {"Wait_AfterLock", "TimeWait_AfterLock"} /\ pc'[t] = "idle"

C17_ReportingRestoredAfterWait ==
    [][\A t \in Threads :
          /\ (WaitReturns(t) /\ woke[t] # "none" /\ pair[t].msg # NULL)
                => /\ msg_' = pair[t].msg
                   /\ msg_threshold_' = pair[t].T
                   /\ lock_time_' = now
          /\ (Releases(t) /\ LockedTooLong)
                => lock_time_ = pair[t].since]_vars

\* C18: the timespec TimeWait computes is a valid absolute deadline equal to
\* now plus the timeout: 0 <= tv_nsec < 1000000000 and
\* tv_sec * 1000000 + tv_nsec / 1000 = now_sec * 1000000 + now_usec +
\* timeout * 1000, for the (tv_usec, timeout) TimeWait was called with.
C18_DeadlineValid ==
    \A t \in Threads :
        pc[t] = "TimeWait"
            => /\ ts[t].tv_nsec >= 0 /\ ts[t].tv_nsec < 1000000000
               /\ \E tv_usec \in TvUsecs, timeout \in Timeouts :
                     /\ ts[t] = Deadline(TvSec, tv_usec, timeout)
                     /\ ts[t].tv_sec * 1000000 + CDiv(ts[t].tv_nsec, 1000)
                           = TvSec * 1000000 + tv_usec + timeout * 1000

\* C19: with MUTEX_DEBUG, when Wait or TimeWait returns to thread A, which
\* locked with threshold Ta, msg_threshold_ is Ta again, whatever the
\* threads that held the mutex in between wrote to it.
C19_ThresholdSurvivesWait ==
    [][\A t \in Threads :
          WaitReturns(t)
              => /\ msg_threshold_' = pair[t].T
                 /\ local[t].msg_threshold = pair[t].T]_vars

\* Thread A has reacquired the mutex in its wait, and msg_threshold_ still
\* holds the threshold of another thread's Lock.
C19_Witness ==
    \E t \in Threads :
        /\ pc[t] \in {"Wait_AfterLock", "TimeWait_AfterLock"}
        /\ mu_ = t
        /\ msg_threshold_ # local[t].msg_threshold
        /\ local[t].msg_threshold = pair[t].T

\* A thread blocked in Lock, or a woken waiter that waits for the mutex.
Contender(t) ==
    \/ pc[t] = "Lock"
    \/ /\ pc[t] \in {"Wait_blocked", "TimeWait_blocked"}
       /\ t \notin cond_ /\ woke[t] # "none"

\* The step by which a contender takes the mutex.
Acquire(t) ==
    \/ Lock_mutex_lock(t)
    \/ Wait_cond_wait_return(t)
    \/ TimeWait_cond_timedwait_return(t)

====
